---- MODULE Spec2Model ----
(***************************************************************************)
(* A model of src/lb4.cpp: the class template String<T> (instantiated at   *)
(* T = char), its free operators, the ToUpperChar transformer and the menu *)
(* loop of main.                                                           *)
(*                                                                         *)
(* The free store is modelled explicitly: every new T[n] takes a block     *)
(* (also when n = 0: new T[0] returns a non-null pointer to a block of     *)
(* zero elements), every delete[] releases one.  A String object is the    *)
(* pair of its members data (a block address, or Null) and length.         *)
(***************************************************************************)
EXTENDS Integers, Sequences, FiniteSets, TLC

\* ------------------------------------------------------------------ bounds

\* Longest character sequence a String of the model holds.
MaxLen == 2

\* Largest repetition count handed to operator*.
MaxTimes == 2

\* ------------------------------------------------------- the modelled world

\* The element values: the characters 'A' and 'a' (their codes).
Chars == {65, 97}

\* The String<char> objects: s, other and sub are the ones main declares;
\* tmp, tmp2, tmp3 and tmp4 are the temporaries of an expression such as
\* s = s + other  or  (a + b) + c == a + (b + c);  result is the local of
\* operator+(const T&, const String<T>&).
Names == {"s", "other"}
Operands == {"s", "other", "sub"}
Objs == Operands \cup {"tmp", "tmp2", "tmp3", "tmp4", "result"}

\* Block addresses.  Every object can own one block, and an operation holds
\* the blocks it allocates besides.
Addrs == 1..(Cardinality(Objs) + 3)
Null == 0

\* Every character sequence of at most n elements.
SeqsUpTo(n) == UNION {[1..k -> Chars] : k \in 0..n}

Min(a, b) == IF a < b THEN a ELSE b

VARIABLES
    heap,     \* heap[p]: the block at address p, [alloc, cells]
    live,     \* live[o]: object o is between its constructor and destructor
    data,     \* data[o]: the member  T* data
    length,   \* length[o]: the member  size_t length
    ub,       \* an operation read or released a block that is not allocated
    leaked,   \* a block was left allocated with no object pointing to it
    last,     \* the call that was made last: its operands and its outcome
    pc,       \* main: where the menu loop stands
    choice,   \* main: int choice
    running,  \* main: bool running
    caught    \* main: the handler that ran for the last command

vars == <<heap, live, data, length, ub, leaked, last, pc, choice, running, caught>>

\* --------------------------------------------------------------- free store

FreeBlock == [alloc |-> FALSE, cells |-> <<>>]

\* The memory as one value m, so that calls compose: every operation below
\* maps a memory to the memory after it.  m.exc names the exception the
\* operation left by ("none" when it returned), m.calls the arguments
\* the transformer was called with, in the order of the calls.
Cur == [heap |-> heap, live |-> live, data |-> data, length |-> length,
        ub |-> ub, leaked |-> leaked, exc |-> "none", calls |-> <<>>]

Valid(m, p) == p \in Addrs /\ m.heap[p].alloc

\* The address the next new T[n] returns.
NewAddr(m) ==
    CHOOSE p \in Addrs : ~m.heap[p].alloc /\ \A q \in Addrs : q < p => m.heap[q].alloc

\* new T[n] followed by the loop that fills the n elements with cells.
new_array(m, cells) ==
    [m EXCEPT !.heap[NewAddr(m)] = [alloc |-> TRUE, cells |-> cells]]

\* delete[] p.  Releasing the null pointer does nothing; releasing a block
\* that is not allocated is undefined.
delete_array(m, p) ==
    IF p = Null THEN m
    ELSE IF Valid(m, p) THEN [m EXCEPT !.heap[p] = FreeBlock]
    ELSE [m EXCEPT !.ub = TRUE]

\* Whether p[off .. off+len-1] lies inside an allocated block.
RangeOk(m, p, off, len) ==
    len = 0 \/ (Valid(m, p) /\ off >= 0 /\ off + len <= Len(m.heap[p].cells))

\* What a read outside an allocated block yields; the read also sets ub.
Garbage == CHOOSE c \in Chars : TRUE

\* The elements p[off], ..., p[off+len-1].
ReadRange(m, p, off, len) ==
    [k \in 1..len |->
        IF RangeOk(m, p, off, len) THEN m.heap[p].cells[off + k] ELSE Garbage]

Touch(m, p, off, len) ==
    IF RangeOk(m, p, off, len) THEN m ELSE [m EXCEPT !.ub = TRUE]

\* The character sequence object o holds: data[0], ..., data[length-1].
Str(m, o) == ReadRange(m, m.data[o], 0, m.length[o])

\* The number of elements of the block o's data points to (-1: no block).
BlockSize(m, o) ==
    IF Valid(m, m.data[o]) THEN Len(m.heap[m.data[o]].cells) ELSE -1

\* ------------------------------------------------- construction, destruction

\* copy_from with one element of spare room:  data = new T[len + 1].
copy_from_spare(m, o, p, off, len) ==
    LET m1 == Touch(m, p, off, len)
        m2 == new_array(m1, Append(ReadRange(m, p, off, len), Garbage))
    IN  [m2 EXCEPT !.data[o] = NewAddr(m1), !.length[o] = len]

\* void copy_from(const T* source, size_t len), source = p + off.
copy_from(m, o, p, off, len) ==
    LET m1 == Touch(m, p, off, len)
        m2 == new_array(m1, ReadRange(m, p, off, len))
    IN  [m2 EXCEPT !.data[o] = NewAddr(m1), !.length[o] = len]

\* The default member initializers: data = nullptr, length = 0.
Members(m, o) ==
    [m EXCEPT !.live[o] = TRUE, !.data[o] = Null, !.length[o] = 0]

\* String() = default
String_default(m, o) == Members(m, o)

\* String(const String& other)
String_copy(m, o, other) ==
    copy_from(Members(m, o), o, m.data[other], 0, m.length[other])

\* The move constructor without  other.data = nullptr; other.length = 0.
String_move_shallow(m, o, other) ==
    [m EXCEPT !.live[o] = TRUE, !.data[o] = m.data[other],
              !.length[o] = m.length[other]]

\* String(String&& other) noexcept
String_move(m, o, other) ==
    [m EXCEPT !.live[o] = TRUE,
              !.data = [@ EXCEPT ![o] = m.data[other], ![other] = Null],
              !.length = [@ EXCEPT ![o] = m.length[other], ![other] = 0]]

\* String(size_t count, const T& ch)
String_fill(m, o, count, ch) ==
    LET m1 == Members(m, o)
        m2 == new_array(m1, [k \in 1..count |-> ch])
    IN  [m2 EXCEPT !.data[o] = NewAddr(m1), !.length[o] = count]

\* String(const T* cstr): cstr is the text followed by its terminating zero;
\* strlen finds Len(text), copy_from copies that many elements.
String_cstr(m, o, text) ==
    LET m1 == Members(m, o)
        m2 == new_array(m1, text)
    IN  [m2 EXCEPT !.data[o] = NewAddr(m1), !.length[o] = Len(text)]

\* String(const T* begin, const T* end), begin = p + b and end = p + e.
String_range(m, o, p, b, e) ==
    IF b > e THEN [m EXCEPT !.exc = "InvalidRange"]
    ELSE copy_from(Members(m, o), o, p, b, e - b)

\* ~String(); the object and its members are gone afterwards.
String_dtor(m, o) ==
    [delete_array(m, m.data[o]) EXCEPT !.live[o] = FALSE, !.data[o] = Null,
                                       !.length[o] = 0]

\* String& operator=(const String& other)
assign_copy(m, o, other) ==
    IF o # other
    THEN LET m1 == delete_array(m, m.data[o])
         IN  copy_from(m1, o, m1.data[other], 0, m1.length[other])
    ELSE m

\* String& operator=(String&& other) noexcept
assign_move(m, o, other) ==
    IF o # other
    THEN LET m1 == delete_array(m, m.data[o])
         IN  [m1 EXCEPT !.data = [@ EXCEPT ![o] = m1.data[other], ![other] = Null],
                        !.length = [@ EXCEPT ![o] = m1.length[other], ![other] = 0]]
    ELSE m

\* ------------------------------------------------------------------- access

\* size_t size() const
size(m, o) == m.length[o]

\* bool empty() const
empty(m, o) == m.length[o] = 0

\* void clear()
clear(m, o) ==
    [delete_array(m, m.data[o]) EXCEPT !.data[o] = Null, !.length[o] = 0]

\* The check of operator[] with > for >=.
op_index_throws_past(m, o, index) == index > m.length[o]

\* operator[](size_t index), the check both overloads start with.
op_index_throws(m, o, index) == index >= m.length[o]

\* T& operator[](size_t index) / const T& operator[](size_t index) const
op_index(m, o, index) ==
    IF op_index_throws(m, o, index) THEN [m EXCEPT !.exc = "OutOfRange"]
    ELSE Touch(m, m.data[o], index, 1)

\* The element operator[] returns a reference to.
op_index_value(m, o, index) == ReadRange(m, m.data[o], index, 1)[1]

\* substr with  if (start >= length) throw.
substr_strict(m, dst, o, start, len) ==
    IF start >= m.length[o] THEN [m EXCEPT !.exc = "OutOfRange"]
    ELSE LET actualLen == Min(len, m.length[o] - start)
         IN  String_range(m, dst, m.data[o], start, start + actualLen)

\* String substr(size_t start, size_t len) const
substr(m, dst, o, start, len) ==
    IF start > m.length[o] THEN [m EXCEPT !.exc = "OutOfRange"]
    ELSE LET actualLen == Min(len, m.length[o] - start)
         IN  String_range(m, dst, m.data[o], start, start + actualLen)

\* ------------------------------------------------- concatenation, repetition

\* operator+ whose second loop writes result.data[i] for result.data[length + i].
op_plus_overwrite(m, dst, o, other) ==
    LET m1 == Members(m, dst)
        m2 == Touch(Touch(m1, m.data[o], 0, m.length[o]),
                    m.data[other], 0, m.length[other])
        m3 == new_array(m2, [k \in 1..(m.length[o] + m.length[other]) |->
                                IF k <= m.length[other] THEN Str(m, other)[k]
                                ELSE IF k <= m.length[o] THEN Str(m, o)[k]
                                ELSE Garbage])
    IN  [m3 EXCEPT !.data[dst] = NewAddr(m2),
                   !.length[dst] = m.length[o] + m.length[other]]

\* String operator+(const String& other) const; dst is the returned object.
op_plus(m, dst, o, other) ==
    LET m1 == Members(m, dst)
        m2 == Touch(Touch(m1, m.data[o], 0, m.length[o]),
                    m.data[other], 0, m.length[other])
        m3 == new_array(m2, Str(m, o) \o Str(m, other))
    IN  [m3 EXCEPT !.data[dst] = NewAddr(m2),
                   !.length[dst] = m.length[o] + m.length[other]]

\* operator+= without  ++length.
op_plus_assign_same_length(m, o, ch) ==
    LET m1 == Touch(m, m.data[o], 0, m.length[o])
        m2 == new_array(m1, Append(Str(m, o), ch))
        m3 == delete_array(m2, m.data[o])
    IN  [m3 EXCEPT !.data[o] = NewAddr(m1)]

\* String& operator+=(const T& ch)
op_plus_assign(m, o, ch) ==
    LET m1 == Touch(m, m.data[o], 0, m.length[o])
        m2 == new_array(m1, Append(Str(m, o), ch))
        m3 == delete_array(m2, m.data[o])
    IN  [m3 EXCEPT !.data[o] = NewAddr(m1), !.length[o] = m.length[o] + 1]

\* String<T> operator+(const String<T>& s, const T& ch)
plus_ch(m, dst, s, ch) == op_plus_assign(String_copy(m, dst, s), dst, ch)

\* String<T> operator+(const T& ch, const String<T>& s)
ch_plus(m, dst, ch, s) ==
    String_dtor(op_plus(String_fill(m, "result", 1, ch), dst, "result", s), "result")

\* operator* whose outer loop runs  for (int t = 0; t < times - 1; ++t).
op_mul_short(m, dst, s, times) ==
    IF times <= 0 THEN String_default(m, dst)
    ELSE LET n == m.length[s]
             m1 == Members(m, dst)
             m2 == Touch(m1, m.data[s], 0, n)
             m3 == new_array(m2, [k \in 1..(n * times) |->
                                     IF k <= n * (times - 1)
                                     THEN Str(m, s)[((k - 1) % n) + 1] ELSE Garbage])
         IN  [m3 EXCEPT !.data[dst] = NewAddr(m2), !.length[dst] = n * times]

\* String<T> operator*(const String<T>& s, int times)
op_mul(m, dst, s, times) ==
    IF times <= 0 THEN String_default(m, dst)
    ELSE LET n == m.length[s]
             m1 == Members(m, dst)
             m2 == Touch(m1, m.data[s], 0, n)
             m3 == new_array(m2, [k \in 1..(n * times) |-> Str(m, s)[((k - 1) % n) + 1]])
         IN  [m3 EXCEPT !.data[dst] = NewAddr(m2), !.length[dst] = n * times]

\* String<T> operator*(int times, const String<T>& s)
mul_op(m, dst, times, s) == op_mul(m, dst, s, times)

\* ----------------------------------------------------------- transformations

\* std::toupper in the "C" locale, on an unsigned char.
toupper(c) == IF c \in 97..122 THEN c - 32 ELSE c

\* struct ToUpperChar : Transformer<char>
ToUpperChar == [c \in Chars |-> toupper(c)]

\* struct Transformer<T>: the transformers a caller hands in.  Besides
\* ToUpperChar, one that maps every element to the other one.
Transformers == {ToUpperChar, (65 :> 97) @@ (97 :> 65)}

\* The loop  for (size_t i = 0; i < length; ++i) out[i] = transformer(in[i]);
\* from index i on.  st = [cells, calls]: the array written so far and the
\* indices the transformer has been called for.
RECURSIVE transform_loop(_, _, _)
transform_loop(st, f, i) ==
    IF i >= Len(st.cells) THEN st
    ELSE transform_loop([cells |-> [st.cells EXCEPT ![i + 1] = f[st.cells[i + 1]]],
                         calls |-> Append(st.calls, i)], f, i + 1)

\* void apply(const Transformer<T>& transformer)
apply(m, o, f) ==
    LET st == transform_loop([cells |-> Str(m, o), calls |-> <<>>], f, 0)
        m1 == Touch(m, m.data[o], 0, m.length[o])
    IN  IF m.length[o] = 0 \/ ~Valid(m, m.data[o]) THEN m1
        ELSE [m1 EXCEPT !.heap[m.data[o]].cells = st.cells, !.calls = st.calls]

\* template <typename Trans> void modify(const Trans& transformer)
modify(m, o, f) == apply(m, o, f)

\* transformed that transforms the receiver and returns a copy of it.
transformed_in_place(m, dst, o, f) == String_copy(apply(m, o, f), dst, o)

\* template <typename Trans> String transformed(const Trans&) const, and the
\* Transformer<T> overload that forwards to it.
transformed(m, dst, o, f) ==
    LET st == transform_loop([cells |-> Str(m, o), calls |-> <<>>], f, 0)
        m1 == Members(m, dst)
        m2 == Touch(m1, m.data[o], 0, m.length[o])
        m3 == new_array(m2, st.cells)
    IN  [m3 EXCEPT !.data[dst] = NewAddr(m2), !.length[dst] = m.length[o],
                   !.calls = st.calls]

\* ---------------------------------------------------------------- comparison

\* bool operator==(const String<T>& a, const String<T>& b)
op_eq(m, a, b) ==
    IF m.length[a] # m.length[b] THEN FALSE
    ELSE \A i \in 1..m.length[a] : ~(Str(m, a)[i] # Str(m, b)[i])

\* bool operator!=(const String<T>& a, const String<T>& b)
op_ne(m, a, b) == ~op_eq(m, a, b)

\* The loop of operator< ending in  return a.length <= b.length.
RECURSIVE lt_loop_le(_, _, _)
lt_loop_le(x, y, i) ==
    IF i >= Min(Len(x), Len(y)) THEN Len(x) <= Len(y)
    ELSE IF x[i + 1] < y[i + 1] THEN TRUE
    ELSE IF x[i + 1] > y[i + 1] THEN FALSE
    ELSE lt_loop_le(x, y, i + 1)

\* The loop of operator< from index i on, and the return after it.
RECURSIVE lt_loop(_, _, _)
lt_loop(x, y, i) ==
    IF i >= Min(Len(x), Len(y)) THEN Len(x) < Len(y)
    ELSE IF x[i + 1] < y[i + 1] THEN TRUE
    ELSE IF x[i + 1] > y[i + 1] THEN FALSE
    ELSE lt_loop(x, y, i + 1)

\* bool operator<(const String<T>& a, const String<T>& b)
op_lt(m, a, b) == lt_loop(Str(m, a), Str(m, b), 0)

\* bool operator>(const String<T>& a, const String<T>& b)
op_gt(m, a, b) == op_lt(m, b, a)

\* bool operator<=(const String<T>& a, const String<T>& b)
op_le(m, a, b) == ~op_gt(m, a, b)

\* bool operator>=(const String<T>& a, const String<T>& b)
op_ge(m, a, b) == ~op_lt(m, a, b)

\* The six comparisons of a with b, in the order ==, !=, <, >, <=, >=.
Comparisons(m, a, b) ==
    <<op_eq(m, a, b), op_ne(m, a, b), op_lt(m, a, b),
      op_gt(m, a, b), op_le(m, a, b), op_ge(m, a, b)>>

\* ----------------------------------------------------------------- text I/O

\* std::ostream& operator<<(std::ostream& os, const String<char>& str): the
\* characters written, str[0], ..., str[str.size()-1].
write(m, str) == [i \in 1..size(m, str) |-> op_index_value(m, str, i - 1)]

\* std::istream& operator>>(std::istream& is, String<char>& str); token is
\* what  is >> temp  extracted (empty when the extraction failed).
read(m, str, token) ==
    String_dtor(assign_move(String_cstr(m, "tmp", token), str, "tmp"), "tmp")

\* ------------------------------------------------------- a caller's calls

\* What last records of a call: the operation, the exception it left by
\* and, for a call that only observes, its operands a and b and the values
\* it returned.
NoCall == [op |-> "none", exc |-> "none", a |-> "-", b |-> "-", ret |-> <<>>]

Call(op, m) == [op |-> op, exc |-> m.exc, a |-> "-", b |-> "-", ret |-> <<>>]

Observed(op, m, a, b, ret) ==
    [op |-> op, exc |-> m.exc, a |-> a, b |-> b, ret |-> ret]

\* The program never orders or prints a block address, it only follows one,
\* so two memories that differ by a renaming of the addresses are the same
\* memory.  Canon renames every block to the place of the first object that
\* points to it.  A block left allocated with no object pointing to it can
\* never be reached again: Canon drops it and records the leak.
ObjOrder == <<"s", "other", "sub", "tmp", "tmp2", "tmp3", "tmp4", "result">>

FirstOwner(m, p) ==
    CHOOSE i \in 1..Len(ObjOrder) :
        /\ m.data[ObjOrder[i]] = p
        /\ \A k \in 1..(i - 1) : m.data[ObjOrder[k]] # p

Canon(m) ==
    [m EXCEPT
        !.heap = [p \in Addrs |->
                     IF /\ p <= Len(ObjOrder)
                        /\ m.data[ObjOrder[p]] # Null
                        /\ FirstOwner(m, m.data[ObjOrder[p]]) = p
                     THEN m.heap[m.data[ObjOrder[p]]]
                     ELSE FreeBlock],
        !.data = [o \in Objs |->
                     IF m.data[o] = Null THEN Null ELSE FirstOwner(m, m.data[o])],
        !.leaked = m.leaked \/ \E p \in Addrs :
                       m.heap[p].alloc /\ \A o \in Objs : m.data[o] # p]

\* The step of a caller: the memory becomes m, the call is recorded.
Commit(m, call) ==
    \E v \in {m} : \E c \in {Canon(v)} :
        /\ heap' = c.heap
        /\ live' = c.live
        /\ data' = c.data
        /\ length' = c.length
        /\ ub' = c.ub
        /\ leaked' = c.leaked
        /\ last' = call
        /\ UNCHANGED <<pc, choice, running, caught>>

Dead(o) == ~live[o]
Live(o) == live[o]

\* Where a call that returns a String by value builds it: in dst itself when
\* the caller writes  String<char> dst = f(...);  and in a temporary when
\* the caller writes  dst = f(...);
Returned(dst) == IF live[dst] THEN "tmp" ELSE dst

\* The rest of  dst = f(...);  the move assignment from the temporary and
\* the temporary's destructor.  Nothing was built when f threw.
Assigned(m, dst) ==
    IF m.exc = "none" /\ m.live["tmp"]
    THEN String_dtor(assign_move(m, dst, "tmp"), "tmp")
    ELSE m

\* String<char> dst;
DefaultCtor ==
    \E dst \in Names :
        /\ Dead(dst)
        /\ Commit(String_default(Cur, dst),
                  Call("String_default", Cur))

\* String<char> dst(count, ch);
FillCtor ==
    \E dst \in Names, count \in 0..MaxLen, ch \in Chars :
        /\ Dead(dst)
        /\ LET m == String_fill(Cur, dst, count, ch)
           IN  Commit(m, Call("String_fill", m))

\* String<char> dst(text);
CstrCtor ==
    \E dst \in Names, text \in SeqsUpTo(MaxLen) :
        /\ Dead(dst)
        /\ LET m == String_cstr(Cur, dst, text)
           IN  Commit(m, Call("String_cstr", m))

\* String<char> dst(a);
CopyCtor ==
    \E dst \in Names, a \in Names :
        /\ Dead(dst) /\ Live(a)
        /\ LET m == String_copy(Cur, dst, a)
           IN  Commit(m, Call("String_copy", m))

\* String<char> dst(std::move(a));
MoveCtor ==
    \E dst \in Names, a \in Names :
        /\ Dead(dst) /\ Live(a)
        /\ LET m == String_move(Cur, dst, a)
           IN  Commit(m, Call("String_move", m))

\* String<char> dst(a.c_str() + b, a.c_str() + e);  b and e inside a's array
RangeCtor ==
    \E dst \in Names, a \in Names :
        /\ Dead(dst) /\ Live(a) /\ data[a] # Null
        /\ \E b \in 0..length[a], e \in 0..length[a] :
              LET m == String_range(Cur, dst, data[a], b, e)
              IN  Commit(m, Call("String_range", m))

\* dst goes out of scope.
Dtor ==
    \E dst \in Names :
        /\ Live(dst)
        /\ Commit(String_dtor(Cur, dst),
                  Call("String_dtor", Cur))

\* dst = a;   (a may be dst)
CopyAssign ==
    \E dst \in Names, a \in Names :
        /\ Live(dst) /\ Live(a)
        /\ LET m == assign_copy(Cur, dst, a)
           IN  Commit(m, Call("assign_copy", m))

\* dst = std::move(a);   (a may be dst)
MoveAssign ==
    \E dst \in Names, a \in Names :
        /\ Live(dst) /\ Live(a)
        /\ LET m == assign_move(Cur, dst, a)
           IN  Commit(m, Call("assign_move", m))

\* dst.clear();
Clear ==
    \E dst \in Names :
        /\ Live(dst)
        /\ Commit(clear(Cur, dst), Call("clear", Cur))

\* a.size(); a.empty();
Size ==
    \E a \in Names :
        /\ Live(a)
        /\ Commit(Cur, Observed("size", Cur, a, "-", <<size(Cur, a), empty(Cur, a)>>))

\* a[index];
Index ==
    \E a \in Names, index \in 0..(MaxLen + 1) :
        /\ Live(a)
        /\ LET m == op_index(Cur, a, index)
           IN  Commit(m, Observed("op_index", m, a, "-",
                                  IF m.exc = "none"
                                  THEN <<op_index_value(Cur, a, index)>> ELSE <<>>))

\* String<char> dst = a.substr(start, len);   or   dst = a.substr(start, len);
Substr ==
    \E dst \in Names, a \in Names, start \in 0..(MaxLen + 1), len \in 0..(MaxLen + 1) :
        /\ Live(a)
        /\ LET m == Assigned(substr(Cur, Returned(dst), a, start, len), dst)
           IN  Commit(m, Call("substr", m))

\* String<char> dst = a + b;   or   dst = a + b;
Concat ==
    \E dst \in Names, a \in Names, b \in Names :
        /\ Live(a) /\ Live(b)
        /\ length[a] + length[b] <= MaxLen
        /\ LET m == Assigned(op_plus(Cur, Returned(dst), a, b), dst)
           IN  Commit(m, Call("op_plus", m))

\* dst += ch;
AppendCh ==
    \E dst \in Names, ch \in Chars :
        /\ Live(dst) /\ length[dst] < MaxLen
        /\ LET m == op_plus_assign(Cur, dst, ch)
           IN  Commit(m, Call("op_plus_assign", m))

\* String<char> dst = a + ch;   or   dst = a + ch;
PlusCh ==
    \E dst \in Names, a \in Names, ch \in Chars :
        /\ Live(a) /\ length[a] < MaxLen
        /\ LET m == Assigned(plus_ch(Cur, Returned(dst), a, ch), dst)
           IN  Commit(m, Call("plus_ch", m))

\* String<char> dst = ch + a;   or   dst = ch + a;
ChPlus ==
    \E dst \in Names, a \in Names, ch \in Chars :
        /\ Live(a) /\ length[a] < MaxLen
        /\ LET m == Assigned(ch_plus(Cur, Returned(dst), ch, a), dst)
           IN  Commit(m, Call("ch_plus", m))

\* String<char> dst = a * times;   or   dst = a * times;
Mul ==
    \E dst \in Names, a \in Names, times \in (-1)..MaxTimes :
        /\ Live(a)
        /\ times > 0 => length[a] * times <= MaxLen
        /\ LET m == Assigned(op_mul(Cur, Returned(dst), a, times), dst)
           IN  Commit(m, Call("op_mul", m))

\* String<char> dst = times * a;   or   dst = times * a;
MulRev ==
    \E dst \in Names, a \in Names, times \in (-1)..MaxTimes :
        /\ Live(a)
        /\ times > 0 => length[a] * times <= MaxLen
        /\ LET m == Assigned(mul_op(Cur, Returned(dst), times, a), dst)
           IN  Commit(m, Call("mul_op", m))

\* dst.apply(f);
Apply ==
    \E dst \in Names, f \in Transformers :
        /\ Live(dst)
        /\ LET m == apply(Cur, dst, f)
           IN  Commit(m, Call("apply", m))

\* dst.modify(f);
Modify ==
    \E dst \in Names, f \in Transformers :
        /\ Live(dst)
        /\ LET m == modify(Cur, dst, f)
           IN  Commit(m, Call("modify", m))

\* String<char> dst = a.transformed(f);   or   dst = a.transformed(f);
Transformed ==
    \E dst \in Names, a \in Names, f \in Transformers :
        /\ Live(a)
        /\ LET m == Assigned(transformed(Cur, Returned(dst), a, f), dst)
           IN  Commit(m, Call("transformed", m))

\* a == b; a != b; a < b; a > b; a <= b; a >= b;
Compare ==
    \E a \in Names, b \in Names :
        /\ Live(a) /\ Live(b)
        /\ Commit(Cur, Observed("compare", Cur, a, b, Comparisons(Cur, a, b)))

Init ==
    /\ heap = [p \in Addrs |-> FreeBlock]
    /\ live = [o \in Objs |-> FALSE]
    /\ data = [o \in Objs |-> Null]
    /\ length = [o \in Objs |-> 0]
    /\ ub = FALSE
    /\ leaked = FALSE
    /\ last = NoCall
    /\ pc = "while"
    /\ choice = 0
    /\ running = TRUE
    /\ caught = "none"

Next ==
    \/ DefaultCtor \/ FillCtor \/ CstrCtor \/ CopyCtor \/ MoveCtor \/ RangeCtor
    \/ Dtor \/ CopyAssign \/ MoveAssign \/ Clear \/ Size \/ Index \/ Substr
    \/ Concat \/ AppendCh \/ PlusCh \/ ChPlus \/ Mul \/ MulRev
    \/ Apply \/ Modify \/ Transformed \/ Compare

\* Any caller of the class, on the objects s and other.
Spec == Init /\ [][Next]_vars

\* ------------------------------------------- expressions over three operands

\* The memory before any object exists.
NoObjects ==
    [heap |-> [p \in Addrs |-> FreeBlock], live |-> [o \in Objs |-> FALSE],
     data |-> [o \in Objs |-> Null], length |-> [o \in Objs |-> 0],
     ub |-> FALSE, leaked |-> FALSE, exc |-> "none", calls |-> <<>>]

\* String<char> s(x), other(y), sub(z);  for any three texts.
AlgInit ==
    \E x \in SeqsUpTo(MaxLen), y \in SeqsUpTo(MaxLen), z \in SeqsUpTo(MaxLen) :
        \E c \in {Canon(String_cstr(String_cstr(String_cstr(NoObjects, "s", x),
                                                "other", y), "sub", z))} :
            /\ heap = c.heap
            /\ live = c.live
            /\ data = c.data
            /\ length = c.length
            /\ ub = c.ub
            /\ leaked = c.leaked
            /\ last = NoCall
            /\ pc = "while"
            /\ choice = 0
            /\ running = TRUE
            /\ caught = "none"

\* The memory while  (a + b) + c == a + (b + c)  is evaluated: tmp = a + b,
\* tmp2 = tmp + c, tmp3 = b + c, tmp4 = a + tmp3.
AssocTemps(m, a, b, c) ==
    CHOOSE m4 \in
        UNION {UNION {UNION {{op_plus(m3, "tmp4", a, "tmp3")} :
                             m3 \in {op_plus(m2, "tmp3", b, c)}} :
                      m2 \in {op_plus(m1, "tmp2", "tmp", c)}} :
               m1 \in {op_plus(m, "tmp", a, b)}} : TRUE

\* The memory after the expression: its temporaries are destroyed.
Discard(m) ==
    String_dtor(String_dtor(String_dtor(String_dtor(m, "tmp4"), "tmp3"),
                            "tmp2"), "tmp")

\* s == other; s != other; s < other; s > other; s <= other; s >= other;
AlgCompare ==
    /\ Live("s") /\ Live("other")
    /\ Commit(Cur, Observed("compare", Cur, "s", "other",
                            Comparisons(Cur, "s", "other")))

\* (s + other) + sub == s + (other + sub);
AlgAssoc ==
    /\ Live("s") /\ Live("other") /\ Live("sub")
    /\ \E t \in {AssocTemps(Cur, "s", "other", "sub")} :
          Commit(Discard(t), Observed("assoc", t, "-", "-", <<op_eq(t, "tmp2", "tmp4")>>))

AlgNext == AlgCompare \/ AlgAssoc

\* The comparisons and the concatenations of three Strings of any contents.
AlgSpec == AlgInit /\ [][AlgNext]_vars

\* ---------------------------------------------------------------------- main

\* What  std::cin >> choice  can leave in choice: the ten options, and 10 for
\* every other number.
Choices == 0..10

\* The step of main: the memory becomes m, control goes to next.
MainStep(m, next) ==
    \E c \in {Canon(m)} :
        /\ heap' = c.heap
        /\ live' = c.live
        /\ data' = c.data
        /\ length' = c.length
        /\ ub' = c.ub
        /\ leaked' = c.leaked
        /\ pc' = next
        /\ UNCHANGED <<last, choice, running>>

\* Where control is after the statements of a case: in the handler when one
\* of them threw, at the loop test otherwise.
After(m) == IF m.exc = "none" THEN "while" ELSE "catch"

\* String<char> s; bool running = true;
MainInit ==
    /\ heap = [p \in Addrs |-> FreeBlock]
    /\ live = [o \in Objs |-> o = "s"]
    /\ data = [o \in Objs |-> Null]
    /\ length = [o \in Objs |-> 0]
    /\ ub = FALSE
    /\ leaked = FALSE
    /\ last = NoCall
    /\ pc = "while"
    /\ choice = 0
    /\ running = TRUE
    /\ caught = "none"

\* while (running) { printMenu(); int choice; std::cin >> choice;
\* A command that would make s longer than MaxLen is not entered.
ReadChoice ==
    /\ pc = "while" /\ running
    /\ \E n \in Choices :
          /\ n = 6 => length["s"] < MaxLen
          /\ choice' = n
    /\ pc' = "switch"
    /\ caught' = "none"
    /\ UNCHANGED <<heap, live, data, length, ub, leaked, last, running>>

\* case 1: std::cin >> s;
Case1 ==
    /\ pc = "switch" /\ choice = 1
    /\ \E token \in SeqsUpTo(MaxLen) :
          \E m \in {read(Cur, "s", token)} : MainStep(m, After(m))
    /\ UNCHANGED caught

\* case 2: std::cout << s;
Case2 ==
    /\ pc = "switch" /\ choice = 2
    /\ write(Cur, "s") = Str(Cur, "s")
    /\ MainStep(Cur, "while")
    /\ UNCHANGED caught

\* case 3: std::cout << s.size();
Case3 ==
    /\ pc = "switch" /\ choice = 3
    /\ size(Cur, "s") >= 0
    /\ MainStep(Cur, "while")
    /\ UNCHANGED caught

\* case 4: size_t idx; std::cin >> idx; std::cout << s[idx];
Case4 ==
    /\ pc = "switch" /\ choice = 4
    /\ \E idx \in 0..(MaxLen + 1) :
          \E m \in {op_index(Cur, "s", idx)} : MainStep(m, After(m))
    /\ UNCHANGED caught

\* case 5: String<char> sub = s.substr(start, len); std::cout << sub;  and
\* the end of sub's scope.
Case5 ==
    /\ pc = "switch" /\ choice = 5
    /\ \E start \in 0..(MaxLen + 1), len \in 0..(MaxLen + 1) :
          \E m \in {substr(Cur, "sub", "s", start, len)} :
              MainStep(IF m.exc = "none" THEN String_dtor(m, "sub") ELSE m, After(m))
    /\ UNCHANGED caught

\* case 6: char ch; std::cin >> ch; s += ch;
Case6 ==
    /\ pc = "switch" /\ choice = 6
    /\ \E ch \in Chars :
          \E m \in {op_plus_assign(Cur, "s", ch)} : MainStep(m, After(m))
    /\ UNCHANGED caught

\* case 7: String<char> other; std::cin >> other; s = s + other;  and the
\* end of other's scope.
Case7 ==
    /\ pc = "switch" /\ choice = 7
    /\ \E token \in SeqsUpTo(MaxLen - length["s"]) :
          \E m1 \in {read(String_default(Cur, "other"), "other", token)} :
          \E m2 \in {op_plus(m1, "tmp", "s", "other")} :
          \E m3 \in {String_dtor(assign_move(m2, "s", "tmp"), "tmp")} :
          \E m \in {String_dtor(m3, "other")} : MainStep(m, After(m))
    /\ UNCHANGED caught

\* case 8: int times; std::cin >> times; s = s * times;
Case8 ==
    /\ pc = "switch" /\ choice = 8
    /\ \E times \in (-1)..MaxTimes :
          /\ times > 0 => length["s"] * times <= MaxLen
          /\ \E m1 \in {op_mul(Cur, "tmp", "s", times)} :
             \E m \in {String_dtor(assign_move(m1, "s", "tmp"), "tmp")} :
                 MainStep(m, After(m))
    /\ UNCHANGED caught

\* case 9: ToUpperChar toUpper; s.apply(toUpper);
Case9 ==
    /\ pc = "switch" /\ choice = 9
    /\ \E m \in {apply(Cur, "s", ToUpperChar)} : MainStep(m, After(m))
    /\ UNCHANGED caught

\* case 0: running = false;
Case0 ==
    /\ pc = "switch" /\ choice = 0
    /\ running' = FALSE
    /\ pc' = "while"
    /\ UNCHANGED <<heap, live, data, length, ub, leaked, last, choice, caught>>

\* default: std::cout << "...";
Default ==
    /\ pc = "switch" /\ choice \notin 0..9
    /\ MainStep(Cur, "while")
    /\ UNCHANGED caught

\* A handler that also ends the loop.
CatchAndQuit ==
    /\ pc = "catch"
    /\ caught' = "StringException"
    /\ running' = FALSE
    /\ pc' = "while"
    /\ UNCHANGED <<heap, live, data, length, ub, leaked, last, choice>>

\* catch (const StringException& ex) { std::cerr << ex.what(); }
Catch ==
    /\ pc = "catch"
    /\ caught' = "StringException"
    /\ pc' = "while"
    /\ UNCHANGED <<heap, live, data, length, ub, leaked, last, choice, running>>

\* The loop test fails: "return 0;" and the end of s's scope.
Exit ==
    /\ pc = "while" /\ ~running
    /\ MainStep(String_dtor(Cur, "s"), "done")
    /\ UNCHANGED caught

MainNext ==
    \/ ReadChoice \/ Case1 \/ Case2 \/ Case3 \/ Case4 \/ Case5 \/ Case6
    \/ Case7 \/ Case8 \/ Case9 \/ Case0 \/ Default \/ Catch \/ Exit

\* The program: main's menu loop on its String s.
MainSpec == MainInit /\ [][MainNext]_vars

\* =================================================================== claims

\* The arguments the claims range over.
Indices == 0..(MaxLen + 1)
Times == (-1)..MaxTimes

\* Object o is as it was: the same block, the same length, the same elements.
Same(m, o) ==
    /\ m.live[o] = live[o]
    /\ m.data[o] = data[o]
    /\ m.length[o] = length[o]
    /\ Str(m, o) = Str(Cur, o)

\* Nothing but the exception distinguishes m from the memory before the call.
Untouched(m) ==
    /\ m.heap = heap /\ m.live = live /\ m.data = data /\ m.length = length
    /\ m.ub = ub

\* Object o of memory m owns a block of its own: allocated, and no other
\* live object's.
OwnsBlock(m, o) ==
    /\ Valid(m, m.data[o])
    /\ \A q \in Objs : q # o /\ m.live[q] => m.data[q] # m.data[o]

\* ---- C1

\* No block is owned by two live objects, no live object points to a
\* released block, and nothing undefined has happened.
Ownership ==
    /\ ~ub
    /\ \A o \in Objs : live[o] /\ data[o] # Null => OwnsBlock(Cur, o)

\* The source a of a move into dst is empty afterwards.
MoveEmpties(dst, a) ==
    \A m \in {IF live[dst] THEN assign_move(Cur, dst, a) ELSE String_move(Cur, dst, a)} :
        m.data[a] = Null /\ m.length[a] = 0

\* C1 as stated: after any sequence of constructions, assignments (self
\* assignment included), slices, appends, concatenations, repetitions, clears
\* and destructions, no array has two live owners, no live sequence owns a
\* released array, and the source of every move is empty.
C1_AsStated ==
    /\ Ownership
    /\ \A dst \in Names, a \in Names : live[a] => MoveEmpties(dst, a)

\* C1, amended: as C1_AsStated, with the source of a move construction or of
\* a move assignment to another sequence empty afterwards, while a move
\* assignment of a sequence to itself leaves it exactly as it was.
C1_Ownership ==
    /\ Ownership
    /\ \A dst \in Names, a \in Names :
          live[a] =>
              /\ dst # a => MoveEmpties(dst, a)
              /\ dst = a => \A m \in {assign_move(Cur, dst, a)} : Same(m, a) /\ Untouched(m)

\* A move assignment has just run and left its source, other, empty, while s
\* holds characters.
C1_Witness ==
    /\ last.op = "assign_move"
    /\ live["s"] /\ live["other"]
    /\ length["s"] > 0 /\ data["other"] = Null /\ length["other"] = 0

\* ---- C2

\* The block of o holds exactly length[o] elements.
ExactSize(o) == Valid(Cur, data[o]) /\ BlockSize(Cur, o) = length[o]

C3_Slice ==
    \A a \in Names, start \in Indices, len \in Indices :
        live[a] =>
            \A m \in {substr(Cur, "tmp", a, start, len)} :
                /\ m.exc = (IF start > length[a] THEN "OutOfRange" ELSE "none")
                /\ ~m.ub
                /\ Same(m, a)
                /\ m.exc # "none" => Untouched(m)
                /\ m.exc = "none" =>
                      /\ m.live["tmp"]
                      /\ m.length["tmp"] = Min(len, length[a] - start)
                      /\ OwnsBlock(m, "tmp")
                      /\ \A i \in 0..(m.length["tmp"] - 1) :
                            Str(m, "tmp")[i + 1] = heap[data[a]].cells[start + i + 1]
                      /\ start = length[a] => m.length["tmp"] = 0

\* A slice has just run without an exception: other is the last element of
\* the two elements of s.
C3_Witness ==
    /\ last.op = "substr" /\ last.exc = "none"
    /\ live["s"] /\ live["other"] /\ length["s"] = 2 /\ length["other"] = 1
    /\ Str(Cur, "other")[1] = Str(Cur, "s")[2]

\* ---- C4

\* C4: at(index) raises OutOfRange exactly when index >= size(), and
\* otherwise returns the element stored at index; a failing at changes
\* neither the length nor the elements.
C4_At ==
    \A a \in Names, index \in Indices :
        live[a] =>
            \A m \in {op_index(Cur, a, index)} :
                /\ m.exc = (IF index >= length[a] THEN "OutOfRange" ELSE "none")
                /\ length[a] = 0 => m.exc = "OutOfRange"
                /\ Untouched(m)
                /\ Same(m, a)
                /\ m.exc = "none" =>
                      op_index_value(Cur, a, index) = heap[data[a]].cells[index + 1]

\* An index access has just failed on a sequence that holds characters.
C4_Witness ==
    /\ last.op = "op_index" /\ last.exc = "OutOfRange"
    /\ last.a = "s" /\ length["s"] = MaxLen

\* ---- C5
C5_RepeatOf(m, a, t) ==
    /\ m.exc = "none" /\ ~m.ub
    /\ Same(m, a)
    /\ m.live["tmp"]
    /\ t <= 0 => m.length["tmp"] = 0 /\ Str(m, "tmp") = <<>>
    /\ t > 0 =>
          /\ m.length["tmp"] = length[a] * t
          /\ BlockSize(m, "tmp") = length[a] * t
          /\ \A k \in 0..(t - 1), i \in 0..(length[a] - 1) :
                Str(m, "tmp")[k * length[a] + i + 1] = Str(Cur, a)[i + 1]

\* C5: repeat(a, t) is empty when t <= 0 and raises nothing; when t > 0 it
\* has a.size() * t elements, the one at k * a.size() + i being a.at(i); a is
\* unchanged.  The same holds of t * a.
C5_Repeat ==
    \A a \in Names, t \in Times :
        live[a] =>
            /\ \A m \in {op_mul(Cur, "tmp", a, t)} : C5_RepeatOf(m, a, t)
            /\ \A m \in {mul_op(Cur, "tmp", t, a)} : C5_RepeatOf(m, a, t)

\* A repetition has just run: s is the one element of other, twice.
C5_Witness ==
    /\ last.op = "op_mul"
    /\ live["s"] /\ live["other"] /\ length["other"] = 1 /\ length["s"] = 2
    /\ Str(Cur, "s") = Str(Cur, "other") \o Str(Cur, "other")

\* ---- C6

\* x is before y in the lexicographic order: the first element in which they
\* differ is smaller in x, or x is a proper prefix of y.
LexLess(x, y) ==
    \/ \E i \in 1..Min(Len(x), Len(y)) :
          x[i] < y[i] /\ \A j \in 1..(i - 1) : x[j] = y[j]
    \/ Len(x) < Len(y) /\ \A j \in 1..Len(x) : x[j] = y[j]

\* C6: < is the lexicographic order, a strict weak order (transitive, and
\* a == b exactly when neither a < b nor b < a), and >, <=, >=, != are the
\* swap and the negations of < and ==.
C6_Order ==
    \A a \in Operands, b \in Operands :
        live[a] /\ live[b] =>
            /\ op_lt(Cur, a, b) = LexLess(Str(Cur, a), Str(Cur, b))
            /\ op_eq(Cur, a, b) = (Str(Cur, a) = Str(Cur, b))
            /\ op_eq(Cur, a, b) = (~op_lt(Cur, a, b) /\ ~op_lt(Cur, b, a))
            /\ op_gt(Cur, a, b) = op_lt(Cur, b, a)
            /\ op_le(Cur, a, b) = ~op_lt(Cur, b, a)
            /\ op_ge(Cur, a, b) = ~op_lt(Cur, a, b)
            /\ op_ne(Cur, a, b) = ~op_eq(Cur, a, b)
            /\ \A c \in Operands :
                  live[c] /\ op_lt(Cur, a, b) /\ op_lt(Cur, b, c) => op_lt(Cur, a, c)

\* A comparison has just found s < other, s being a proper prefix of other.
C6_Witness ==
    /\ last.op = "compare" /\ last.a = "s" /\ last.b = "other"
    /\ last.ret[3] /\ ~last.ret[1]
    /\ length["s"] = 1 /\ length["other"] = 2
    /\ Str(Cur, "other")[1] = Str(Cur, "s")[1]

\* ---- C7

\* C7: concat(a, b) has a.size() + b.size() elements, those of a followed by
\* those of b, raises nothing and leaves a and b unchanged; concat is
\* associative and the empty sequence is its identity.
C7_Concat ==
    /\ \A a \in Operands, b \in Operands :
          live[a] /\ live[b] =>
              /\ \A m \in {op_plus(Cur, "tmp", a, b)} :
                    /\ m.exc = "none" /\ ~m.ub
                    /\ m.length["tmp"] = length[a] + length[b]
                    /\ BlockSize(m, "tmp") = length[a] + length[b]
                    /\ Str(m, "tmp") = Str(Cur, a) \o Str(Cur, b)
                    /\ Same(m, a) /\ Same(m, b)
                    /\ OwnsBlock(m, "tmp")
              /\ \A m \in {op_plus(String_default(Cur, "tmp"), "tmp2", a, "tmp")} :
                    op_eq(m, "tmp2", a)
              /\ \A c \in Operands :
                    live[c] =>
                        \A m \in {AssocTemps(Cur, a, b, c)} :
                            /\ op_eq(m, "tmp2", "tmp4")
                            /\ m.exc = "none" /\ ~m.ub
                            /\ Same(m, a) /\ Same(m, b) /\ Same(m, c)

\* (s + other) + sub == s + (other + sub) has just been evaluated to true,
\* on three sequences that hold characters.
C7_Witness ==
    /\ last.op = "assoc" /\ last.ret = <<TRUE>>
    /\ length["s"] > 0 /\ length["other"] > 0 /\ length["sub"] > 0
    /\ Str(Cur, "s") # Str(Cur, "other")

\* ---- C8

\* C8: append(e) grows a by exactly one, keeps every element at its index
\* and puts e last; append_element(a, e) returns a sequence of a.size() + 1
\* elements, the first a.size() those of a and the last e, and leaves a as
\* it was.
C8_Append ==
    \A a \in Names, e \in Chars :
        live[a] =>
            /\ \A m \in {op_plus_assign(Cur, a, e)} :
                  /\ m.exc = "none" /\ ~m.ub
                  /\ m.length[a] = length[a] + 1
                  /\ BlockSize(m, a) = length[a] + 1
                  /\ \A i \in 1..length[a] : Str(m, a)[i] = Str(Cur, a)[i]
                  /\ Str(m, a)[length[a] + 1] = e
            /\ \A m \in {plus_ch(Cur, "tmp", a, e)} :
                  /\ m.exc = "none" /\ ~m.ub
                  /\ m.length["tmp"] = length[a] + 1
                  /\ \A i \in 1..length[a] : Str(m, "tmp")[i] = Str(Cur, a)[i]
                  /\ Str(m, "tmp")[length[a] + 1] = e
                  /\ Same(m, a)
                  /\ OwnsBlock(m, "tmp")

\* An append has just run on s, which now holds MaxLen elements.
C8_Witness ==
    /\ last.op = "op_plus_assign"
    /\ live["s"] /\ length["s"] = MaxLen /\ Str(Cur, "s")[MaxLen] = 97

\* ---- C9
C9_InPlace(m, a, f) ==
    /\ m.exc = "none" /\ ~m.ub
    /\ m.length[a] = length[a]
    /\ m.data[a] = data[a]
    /\ \A i \in 1..length[a] : Str(m, a)[i] = f[Str(Cur, a)[i]]
    /\ m.calls = [i \in 1..length[a] |-> i - 1]

\* C9: applyInPlace(f) calls f for the indices in ascending order and leaves
\* a with the same length and f of the old element at every index; mapped(f)
\* returns a new sequence of that length and those elements and leaves the
\* receiver as it was.  ToUpperChar maps a lower-case letter to its upper-case
\* form and every other character to itself.
C9_Transform ==
    /\ \A a \in Names, f \in Transformers :
          live[a] =>
              /\ \A m \in {apply(Cur, a, f)} : C9_InPlace(m, a, f)
              /\ \A m \in {modify(Cur, a, f)} : C9_InPlace(m, a, f)
              /\ \A m \in {transformed(Cur, "tmp", a, f)} :
                    /\ m.exc = "none" /\ ~m.ub
                    /\ m.length["tmp"] = length[a]
                    /\ \A i \in 1..length[a] : Str(m, "tmp")[i] = f[Str(Cur, a)[i]]
                    /\ m.calls = [i \in 1..length[a] |-> i - 1]
                    /\ Same(m, a)
                    /\ OwnsBlock(m, "tmp")
    /\ \A c \in Chars :
          ToUpperChar[c] = (IF 97 <= c /\ c <= 122 THEN c - 32 ELSE c)

\* A transformation has just run in place: s holds two upper-case letters.
C9_Witness ==
    /\ last.op = "apply"
    /\ live["s"] /\ length["s"] = 2 /\ Str(Cur, "s") = <<65, 65>>

\* ---- C10
C10_Step ==
    /\ pc = "switch" /\ pc' = "catch" =>
          /\ choice \in {4, 5}
          /\ UNCHANGED <<heap, live, data, length, running>>
    /\ pc = "catch" => pc' = "while" /\ running' /\ caught' = "StringException"
    /\ pc = "while" /\ running => pc' = "switch"
    /\ pc' = "done" => choice = 0 /\ ~running
    /\ running /\ ~running' => pc = "switch" /\ choice = 0

\* C10: in the menu loop a command that raises leaves s exactly as it was,
\* the handler runs and reports, and the loop goes on to the next command;
\* the loop ends only after choice 0.
C10_Loop ==
    /\ [][C10_Step]_vars
    /\ [](pc = "catch" => running /\ ~ub /\ live["s"])

\* The handler is about to run for a command on a sequence that holds
\* characters.
C10_Witness == pc = "catch" /\ choice = 5 /\ length["s"] = MaxLen

====
